---- MODULE Spec2Model ----
(***************************************************************************)
(* MuseFlow backend: the message router (handleMessage), the content       *)
(* action handlers (summarize, rewrite, ideate, translate), the provider   *)
(* chain (callChromeAI) and the response cache (CacheManager) over         *)
(* chrome.storage.local.                                                   *)
(*                                                                         *)
(* Texts are kept run-length encoded, a sequence of <<charCode, count>>    *)
(* runs, so that inputs longer than the 5000 character limit can be        *)
(* handled; every text operation below works on the characters the runs    *)
(* stand for.                                                              *)
(***************************************************************************)
EXTENDS Integers, Sequences, FiniteSets, TLC

\* ------------------------------------------------------------------ bounds
MaxClock == 2
MaxSaves == 2
MaxLookups == 2
MaxFail == 1

\* ------------------------------------------------------- program constants
MaxTextLength == 5000
DefaultMaxCacheEntries == 100
DefaultCacheTtl == 86400000
W16 == 2^16

\* -------------------------------------------------------------------- text
RECURSIVE TextLen(_)
TextLen(t) == IF t = <<>> THEN 0 ELSE t[1][2] + TextLen(Tail(t))

\* t1 followed by t2, adjacent equal characters merged into one run
Concat(t1, t2) ==
  IF t1 = <<>> THEN t2
  ELSE IF t2 = <<>> THEN t1
  ELSE IF t1[Len(t1)][1] = t2[1][1]
       THEN SubSeq(t1, 1, Len(t1) - 1)
            \o << <<t2[1][1], t1[Len(t1)][2] + t2[1][2]>> >>
            \o Tail(t2)
       ELSE t1 \o t2

\* text.substring(0, n)
RECURSIVE Substring0(_, _)
Substring0(t, n) ==
  IF t = <<>> \/ n <= 0 THEN <<>>
  ELSE IF t[1][2] >= n THEN << <<t[1][1], n>> >>
  ELSE << t[1] >> \o Substring0(Tail(t), n - t[1][2])

WhiteSpace == {9, 10, 13, 32}

\* text.trim().length === 0 (also true of the empty text)
IsBlank(t) == \A i \in 1..Len(t) : t[i][1] \in WhiteSpace

\* !text || text.trim().length === 0
MissingText(t) == t = <<>> \/ IsBlank(t)

\* text.trim()
RECURSIVE TrimStart(_)
TrimStart(t) ==
  IF t # <<>> /\ t[1][1] \in WhiteSpace THEN TrimStart(Tail(t)) ELSE t

RECURSIVE TrimEnd(_)
TrimEnd(t) ==
  IF t # <<>> /\ t[Len(t)][1] \in WhiteSpace
  THEN TrimEnd(SubSeq(t, 1, Len(t) - 1)) ELSE t

Trim(t) == TrimEnd(TrimStart(t))

MinContextLength == 10

\* !text || text.trim().length < 10, the check of buildPrompt
InsufficientContext(t) == t = <<>> \/ TextLen(Trim(t)) < MinContextLength

Ellipsis == << <<46, 3>> >>

TruncateNoMarker(t) ==
  IF TextLen(t) > MaxTextLength THEN Substring0(t, MaxTextLength) ELSE t

\* if (text.length > 5000) text = `${text.substring(0, 5000)}...`
Truncate(t) ==
  IF TextLen(t) > MaxTextLength THEN Concat(Substring0(t, MaxTextLength), Ellipsis) ELSE t

\* --------------------------------------------------------------- cache key
ActionChars ==
  [ summarize |-> <<115, 117, 109, 109, 97, 114, 105, 122, 101>>,
    rewrite   |-> <<114, 101, 119, 114, 105, 116, 101>>,
    ideate    |-> <<105, 100, 101, 97, 116, 101>>,
    translate |-> <<116, 114, 97, 110, 115, 108, 97, 116, 101>> ]

ContentActions == {"summarize", "rewrite", "ideate", "translate"}

\* one round of the loop: hash = ((hash << 5) - hash) + char; hash = hash & hash
\* on a 32 bit value held as <<high 16 bits, low 16 bits>>
HashStep(h, c) ==
  LET lo == h[2] * 31 + c
      hi == h[1] * 31 + (lo \div W16)
  IN  << hi % W16, lo % W16 >>

\* n rounds of the loop over a run of n equal characters (h \in Hash32 makes
\* TLC evaluate h before it descends)
Hash32 == (0..(W16 - 1)) \X (0..(W16 - 1))

RECURSIVE HashRun(_, _, _)
HashRun(h, c, n) ==
  IF h \notin Hash32 \/ n = 0 THEN h
  ELSE IF n = 1 THEN HashStep(h, c)
  ELSE HashRun(HashRun(h, c, n \div 2), c, n - (n \div 2))

RECURSIVE HashText(_, _)
HashText(h, t) ==
  IF t = <<>> THEN h ELSE HashText(HashRun(h, t[1][1], t[1][2]), Tail(t))

RECURSIVE HashChars(_, _)
HashChars(h, s) ==
  IF s = <<>> THEN h ELSE HashChars(HashStep(h, s[1]), Tail(s))

\* the signed 32 bit integer the two halves stand for
ToInt32(h) ==
  IF h[1] >= W16 \div 2 THEN (h[1] - W16) * W16 + h[2] ELSE h[1] * W16 + h[2]

RECURSIVE Digits36(_)
Digits36(n) == IF n < 36 THEN <<n>> ELSE Digits36(n \div 36) \o <<n % 36>>

\* the base 36 digits of -n for n <= 0, without negating n
RECURSIVE Digits36Neg(_)
Digits36Neg(n) ==
  IF n > -36 THEN <<-n>>
  ELSE IF n % 36 = 0 THEN Digits36Neg(n \div 36) \o <<0>>
  ELSE Digits36Neg((n \div 36) + 1) \o <<36 - (n % 36)>>

\* Number.prototype.toString(36): a sign and the digits
ToString36(n) == IF n < 0 THEN <<"-">> \o Digits36Neg(n) ELSE Digits36(n)

\* generateHash(text, action): the rolling hash of `${action}:${text}`
generateHash(text, action) ==
  ToString36(ToInt32(HashText(HashChars(<<0, 0>>, ActionChars[action] \o <<58>>), text)))

\* `cache_${inputHash}`
CacheKeyOf(inputHash) == <<"cache_">> \o inputHash

\* key.startsWith('cache_')
IsCacheKey(k) == k[1] = "cache_"

\* the input texts: "Aa" and "BB" followed by nine "x" (equal rolling hashes),
\* a text one character over the limit, and a blank text
TA == << <<65, 1>>, <<97, 1>>, <<120, 9>> >>
TB == << <<66, 2>>, <<120, 9>> >>
TL == << <<121, MaxTextLength + 1>> >>
TW == << <<32, 3>> >>

\* "short" followed by six blanks
TS == << <<115, 1>>, <<104, 1>>, <<111, 1>>, <<114, 1>>, <<116, 1>>, <<32, 6>> >>

InputTexts == {TA, TB, TL, TW, TS}

\* generateHash over the texts in use, computed once
HashMemo ==
  [ p \in ContentActions \X (InputTexts \cup { Truncate(x) : x \in InputTexts }) |->
      generateHash(p[2], p[1]) ] @@ <<>>

inputHashOf(text, action) == HashMemo[<<action, text>>]

\* ----------------------------------------------------------- configuration
\* getConfig's failure value: defaultConfig.features.enableCaching,
\* limits.maxCacheEntries and limits.cacheTtl
defaultConfig ==
  [ enableCaching |-> TRUE,
    maxCacheEntries |-> DefaultMaxCacheEntries,
    cacheTtl |-> DefaultCacheTtl ]

\* getConfig(): the stored configuration, or the defaults when
\* chrome.storage.sync.get rejects; it never throws
getConfig(cf, fail) == IF "sync" \in fail THEN defaultConfig ELSE cf

\* the chrome.storage calls that can reject
Sites == {"sync", "get", "set", "getAll", "remove"}

FailSets == { F \in SUBSET Sites : Cardinality(F) <= MaxFail }

\* those of chrome.storage.local
LocalFailSets == { F \in FailSets : "sync" \notin F }

\* ------------------------------------------------------------------- cache
\* an AIResponse; null is the record with found = FALSE
Null == [found |-> FALSE, text |-> <<>>, provider |-> ""]

AIResponse(text, provider) == [found |-> TRUE, text |-> text, provider |-> provider]

InitStats ==
  [ totalEntries |-> 0, hits |-> 0, misses |-> 0, hitRate |-> <<0, 1>>,
    oldestEntry |-> 0, newestEntry |-> 0 ]

\* updateHitRate(): hits / total as the pair <<hits, total>>, 0 as <<0, 1>>
updateHitRate(ss) ==
  LET total == ss.hits + ss.misses
  IN  [ss EXCEPT !.hitRate = IF total > 0 THEN <<ss.hits, total>> ELSE <<0, 1>>]

MissTwice(ss) == updateHitRate([ss EXCEPT !.misses = @ + 2])

MissMut(ss) == updateHitRate([ss EXCEPT !.misses = @ - 1])

Miss(ss) == updateHitRate([ss EXCEPT !.misses = @ + 1])

HitStaleRate(ss) == [ss EXCEPT !.hits = @ + 1]

Hit(ss) == updateHitRate([ss EXCEPT !.hits = @ + 1])

CacheKeys(st) == { k \in DOMAIN st : IsCacheKey(k) }

Without(st, ks) == [k \in DOMAIN st \ ks |-> st[k]]

With(st, k, v) == [x \in DOMAIN st \cup {k} |-> IF x = k THEN v ELSE st[x]]

Max0(a) == IF a > 0 THEN a ELSE 0

\* removeCacheEntry(cacheKey): a failed remove is caught and changes nothing
removeCacheEntry(st, ss, cacheKey, fail) ==
  IF "remove" \in fail
  THEN [ storage |-> st, stats |-> ss, threw |-> FALSE ]
  ELSE [ storage |-> Without(st, {cacheKey}),
         stats |-> [ss EXCEPT !.totalEntries = Max0(@ - 1)],
         threw |-> FALSE ]

\* now > entry.timestamp + entry.ttl
IsExpiredMut(entry, t) == t > entry.timestamp + entry.ttl + 1

IsExpired(entry, t) == t > entry.timestamp + entry.ttl

getCacheEntryAlways(st, ss, cf, inputText, action, t, fail) ==
  LET cacheKey == CacheKeyOf(inputHashOf(inputText, action))
      miss == [ storage |-> st, stats |-> Miss(ss), value |-> Null, threw |-> FALSE,
                gets |-> 1 ]
  IN  IF "get" \in fail THEN miss
      ELSE IF cacheKey \notin DOMAIN st THEN miss
      ELSE IF IsExpired(st[cacheKey], t)
           THEN LET r == removeCacheEntry(st, ss, cacheKey, fail)
                IN  [ storage |-> r.storage, stats |-> Miss(r.stats),
                      value |-> Null, threw |-> FALSE, gets |-> 1 ]
           ELSE [ storage |-> st, stats |-> Hit(ss),
                  value |-> st[cacheKey].response, threw |-> FALSE, gets |-> 1 ]

\* getCacheEntry(inputText, action) at clock value t; gets counts the calls of
\* chrome.storage.local.get
getCacheEntry(st, ss, cf, inputText, action, t, fail) ==
  LET cfg == getConfig(cf, fail)
      cacheKey == CacheKeyOf(inputHashOf(inputText, action))
      miss == [ storage |-> st, stats |-> Miss(ss), value |-> Null, threw |-> FALSE,
                gets |-> 1 ]
  IN  IF ~cfg.enableCaching THEN [miss EXCEPT !.gets = 0]
      ELSE IF "get" \in fail THEN miss
      ELSE IF cacheKey \notin DOMAIN st THEN miss
      ELSE IF IsExpired(st[cacheKey], t)
           THEN LET r == removeCacheEntry(st, ss, cacheKey, fail)
                IN  [ storage |-> r.storage, stats |-> Miss(r.stats),
                      value |-> Null, threw |-> FALSE, gets |-> 1 ]
           ELSE [ storage |-> st, stats |-> Hit(ss),
                  value |-> st[cacheKey].response, threw |-> FALSE, gets |-> 1 ]

\* Array.prototype.sort by timestamp, which is stable: e goes behind the
\* elements it does not precede
RECURSIVE InsertBy(_, _, _)
InsertBy(s, e, asc) ==
  IF s = <<>> THEN <<e>>
  ELSE IF (IF asc THEN e.timestamp < s[1].timestamp ELSE e.timestamp > s[1].timestamp)
       THEN <<e>> \o s
       ELSE <<s[1]>> \o InsertBy(Tail(s), e, asc)

RECURSIVE SortFrom(_, _, _)
SortFrom(done, rest, asc) ==
  IF rest = <<>> THEN done ELSE SortFrom(InsertBy(done, rest[1], asc), Tail(rest), asc)

SortByTimestamp(s, asc) == SortFrom(<<>>, s, asc)

\* the orders in which chrome.storage.local.get(null) can enumerate the cache keys
Orders(st) ==
  LET ks == CacheKeys(st)
      n == Cardinality(ks)
  IN  { o \in [1..n -> ks] : \A i, j \in 1..n : o[i] = o[j] => i = j }

\* getAllCacheEntries(): the cache entries, newest first; [] when the read fails
getAllCacheEntries(st, order, fail) ==
  IF "getAll" \in fail THEN <<>>
  ELSE SortByTimestamp([i \in 1..Len(order) |-> st[order[i]]], FALSE)

\* cleanupOldEntries(): remove the oldest entries beyond limits.maxCacheEntries
cleanupOldEntries(st, ss, cf, order, fail) ==
  LET cfg == getConfig(cf, fail)
      entries == SortByTimestamp(getAllCacheEntries(st, order, fail), TRUE)
      excess == Len(entries) - cfg.maxCacheEntries
      keysToRemove == { entries[i].id : i \in 1..excess }
  IN  IF Len(entries) <= cfg.maxCacheEntries THEN [ storage |-> st, stats |-> ss ]
      ELSE IF "remove" \in fail THEN [ storage |-> st, stats |-> ss ]
      ELSE [ storage |-> Without(st, keysToRemove),
             stats |-> [ss EXCEPT !.totalEntries = Len(entries) - excess] ]

CacheEntry(cacheKey, inputText, response, t, ttl, action, inputHash) ==
  [ id |-> cacheKey, inputText |-> inputText, response |-> response,
    timestamp |-> t, ttl |-> ttl, action |-> action, inputHash |-> inputHash ]

\* saveToCache up to chrome.storage.local.set: sets is the keys handed to set,
\* cleans whether cleanupOldEntries is reached
storeEntry(st, ss, cf, action, inputText, response, t, fail) ==
  LET cfg == getConfig(cf, fail)
      inputHash == inputHashOf(inputText, action)
      cacheKey == CacheKeyOf(inputHash)
      entry == CacheEntry(cacheKey, inputText, response, t, cfg.cacheTtl, action, inputHash)
  IN  IF ~cfg.enableCaching
      THEN [ storage |-> st, stats |-> ss, sets |-> {}, cleans |-> FALSE ]
      ELSE IF "set" \in fail
      THEN [ storage |-> st, stats |-> ss, sets |-> {cacheKey}, cleans |-> FALSE ]
      ELSE [ storage |-> With(st, cacheKey, entry),
             stats |-> [ss EXCEPT !.totalEntries = @ + 1],
             sets |-> {cacheKey}, cleans |-> TRUE ]

saveToCacheNoCatch(st, ss, cf, action, inputText, response, t, order, fail) ==
  LET s1 == storeEntry(st, ss, cf, action, inputText, response, t, fail)
      c == cleanupOldEntries(s1.storage, s1.stats, cf, order, fail)
  IN  IF s1.cleans
      THEN [ storage |-> c.storage, stats |-> c.stats, sets |-> s1.sets, threw |-> FALSE ]
      ELSE [ storage |-> s1.storage, stats |-> s1.stats, sets |-> s1.sets,
             threw |-> "set" \in fail ]

\* saveToCache(action, inputText, response) at clock value t; order enumerates
\* the cache keys present once the entry is set; every failure is caught
saveToCache(st, ss, cf, action, inputText, response, t, order, fail) ==
  LET s1 == storeEntry(st, ss, cf, action, inputText, response, t, fail)
      c == cleanupOldEntries(s1.storage, s1.stats, cf, order, fail)
  IN  IF s1.cleans
      THEN [ storage |-> c.storage, stats |-> c.stats, sets |-> s1.sets, threw |-> FALSE ]
      ELSE [ storage |-> s1.storage, stats |-> s1.stats, sets |-> s1.sets, threw |-> FALSE ]

clearCacheKeepsCounters(st, ss, fail) ==
  LET cacheKeys == CacheKeys(st)
  IN  IF "getAll" \in fail THEN [ storage |-> st, stats |-> ss, threw |-> FALSE ]
      ELSE IF cacheKeys # {} /\ "remove" \in fail
      THEN [ storage |-> st, stats |-> ss, threw |-> FALSE ]
      ELSE [ storage |-> Without(st, cacheKeys),
             stats |-> [ss EXCEPT !.totalEntries = 0],
             threw |-> FALSE ]

clearCacheAll(st, ss, fail) ==
  LET cacheKeys == DOMAIN st
  IN  IF "getAll" \in fail THEN [ storage |-> st, stats |-> ss, threw |-> FALSE ]
      ELSE IF cacheKeys # {} /\ "remove" \in fail
      THEN [ storage |-> st, stats |-> ss, threw |-> FALSE ]
      ELSE [ storage |-> Without(st, cacheKeys),
             stats |-> [ss EXCEPT !.totalEntries = 0, !.hits = 0, !.misses = 0,
                                  !.hitRate = <<0, 1>>],
             threw |-> FALSE ]

\* clearCache(): a failed read or remove is caught before the counters are reset
clearCache(st, ss, fail) ==
  LET cacheKeys == CacheKeys(st)
  IN  IF "getAll" \in fail THEN [ storage |-> st, stats |-> ss, threw |-> FALSE ]
      ELSE IF cacheKeys # {} /\ "remove" \in fail
      THEN [ storage |-> st, stats |-> ss, threw |-> FALSE ]
      ELSE [ storage |-> Without(st, cacheKeys),
             stats |-> [ss EXCEPT !.totalEntries = 0, !.hits = 0, !.misses = 0,
                                  !.hitRate = <<0, 1>>],
             threw |-> FALSE ]

\* ---------------------------------------------------------- provider chain
\* error messages are sequences of phrases; includes() looks for a phrase
Includes(msg, phrase) == \E i \in 1..Len(msg) : msg[i] = phrase

AiConfigs ==
  [ provider : {"chrome", "openai", "gemini"}, chromeAi : BOOLEAN,
    enableFallback : BOOLEAN, openaiKey : BOOLEAN, geminiKey : BOOLEAN ]

NoAi ==
  [ provider |-> "none", chromeAi |-> FALSE, enableFallback |-> FALSE,
    openaiKey |-> FALSE, geminiKey |-> FALSE ]

\* what the upstream services do with a request: the direct Chrome summarizer /
\* translator, the OpenAI and the Gemini endpoints, and the text they return
Outcomes == {"ok", "throw"}

Texts0 == { <<"r1">>, <<>> }

Envs == [ direct : Outcomes, openai : Outcomes, gemini : Outcomes, text : Texts0 ]

\* response.trim() is empty
BlankResponse(x) == x = <<>> \/ x = <<" ">>

\* callChromeAIAPI(request, model): the simulated call, which always resolves
callChromeAIAPI(prompt) ==
  [ ok |-> TRUE, resp |-> AIResponse(<<"Chrome AI response for:", prompt>>, "chrome"),
    err |-> <<>> ]

\* callOpenAI(request, config)
callOpenAI(env) ==
  IF env.openai = "ok"
  THEN [ ok |-> TRUE, resp |-> AIResponse(env.text, "openai"), err |-> <<>> ]
  ELSE [ ok |-> FALSE, resp |-> Null,
         err |-> <<"OpenAI API error:", "500", "Internal Server Error">> ]

\* callGemini(request, config)
callGemini(env) ==
  IF env.gemini = "ok"
  THEN [ ok |-> TRUE, resp |-> AIResponse(env.text, "gemini"), err |-> <<>> ]
  ELSE [ ok |-> FALSE, resp |-> Null,
         err |-> <<"Gemini API error:", "500", "Internal Server Error">> ]

\* the result of a call with the providers called, in order, and those of
\* them that threw
Called(r, name) ==
  [ ok |-> r.ok, resp |-> r.resp, err |-> r.err, calls |-> <<name>>,
    thrown |-> IF r.ok THEN <<>> ELSE <<name>> ]

NoProvider ==
  [ ok |-> FALSE, resp |-> Null, err |-> <<"No AI provider available">>,
    calls |-> <<>>, thrown |-> <<>> ]

\* callChromeAI(request): the first branch whose condition holds is the only
\* provider called; what it throws is logged and thrown again
callChromeAI(ai, prompt, env) ==
  IF ai.provider = "chrome" /\ ai.chromeAi
  THEN Called(callChromeAIAPI(prompt), "chrome")
  ELSE IF ai.enableFallback /\ ai.openaiKey THEN Called(callOpenAI(env), "openai")
  ELSE IF ai.enableFallback /\ ai.geminiKey THEN Called(callGemini(env), "gemini")
  ELSE NoProvider

\* callChromeAISummarize / callChromeAITranslate: the direct Chrome call tried
\* before callChromeAI
callChromeDirect(env) ==
  IF env.direct = "ok"
  THEN [ ok |-> TRUE, resp |-> AIResponse(env.text, "chrome"), err |-> <<>> ]
  ELSE [ ok |-> FALSE, resp |-> Null, err |-> <<"Chrome AI not available">> ]

HasDirect(action) == action \in {"summarize", "translate"}

\* the provider part of a handler: the direct call where the handler has one,
\* callChromeAI when it throws
callProviders(action, ai, prompt, env) ==
  LET d == callChromeDirect(env)
      g == callChromeAI(ai, prompt, env)
  IN  IF HasDirect(action)
      THEN IF d.ok THEN Called(d, "direct")
           ELSE [g EXCEPT !.calls = <<"direct">> \o @, !.thrown = <<"direct">> \o @]
      ELSE g

\* parseSummarizeResponse, parseRewriteResponse and parseTranslationResponse
\* throw on a blank response; parseIdeasFromResponse takes any text
RejectsBlank(action) == action # "ideate"

\* ------------------------------------------------------------------ router
TextRequired ==
  [ summarize |-> <<"Text is required for summarization">>,
    rewrite   |-> <<"Text is required for rewriting">>,
    ideate    |-> <<"Text is required for ideation">>,
    translate |-> <<"Text is required for translation">> ]

RenderErrorChromeFirst(msg) ==
  IF Includes(msg, "Chrome AI API not available")
  THEN <<"AI service unavailable:", "Chrome AI API not accessible">>
  ELSE IF Includes(msg, "INSUFFICIENT_CONTEXT")
  THEN <<"INSUFFICIENT_CONTEXT:", "Please provide at least 10 characters of text">>
  ELSE IF Includes(msg, "No AI provider available")
  THEN <<"AI service unavailable:", "No AI providers configured">>
  ELSE msg

\* the catch branch of handleMessage: the error text of the response
RenderError(msg) ==
  IF Includes(msg, "INSUFFICIENT_CONTEXT")
  THEN <<"INSUFFICIENT_CONTEXT:", "Please provide at least 10 characters of text">>
  ELSE IF Includes(msg, "Chrome AI API not available")
  THEN <<"AI service unavailable:", "Chrome AI API not accessible">>
  ELSE IF Includes(msg, "No AI provider available")
  THEN <<"AI service unavailable:", "No AI providers configured">>
  ELSE msg

\* ------------------------------------------------------------------- state
VARIABLES
  storage,  \* chrome.storage.local: key -> value
  origin,   \* per cache key, the request whose result the entry holds
  stats,    \* CacheManager.stats
  now,      \* Date.now()
  config,   \* the stored configuration read by getConfig()
  log,      \* the saveToCache calls made since the cache was last empty
  rq        \* the request in progress, or the last one, and what it did

vars == <<storage, origin, stats, now, config, log, rq>>

\* ------------------------------------------------------------------ inputs
OptionValues == {"o1", "o2"}

MaxEntries == 1
CacheTtl == 1

Configs ==
  [ enableCaching : BOOLEAN, maxCacheEntries : 1..MaxEntries, cacheTtl : {CacheTtl} ]

\* the requests the router is sent
Requests ==
  [ action : ContentActions, text : {TA, TL, TW}, options : OptionValues ]
  \cup [ action : {"ping", "bogus", ""}, text : {<<>>}, options : {"o1"} ]

\* the ai configurations the handlers' provider calls run under
HandlerAi ==
  { a \in AiConfigs : /\ a.provider = "chrome" /\ a.openaiKey /\ a.geminiKey
                      /\ (a.chromeAi => a.enableFallback) }

\* the responses handed to saveToCache directly
SavedResponses == { AIResponse(<<"r1">>, "openai"), AIResponse(<<"r2">>, "chrome") }

NoOrigin == [action |-> "", text |-> <<>>, options |-> ""]

NoData == [present |-> FALSE, text |-> <<>>]

Data(text) == [present |-> TRUE, text |-> text]

IdleRq ==
  [ pc |-> "idle", op |-> "none", action |-> "", orig |-> <<>>, text |-> <<>>,
    options |-> "", hit |-> FALSE, fresh |-> FALSE, hitOrigin |-> NoOrigin,
    ai |-> NoAi, calls |-> <<>>, resp |-> Null, sets |-> {}, failed |-> FALSE, fail |-> {},
    threw |-> FALSE, thrown |-> <<>>, cached |-> <<>>, expired |-> FALSE,
    again |-> FALSE, done |-> FALSE, success |-> FALSE, data |-> NoData, error |-> <<>>,
    removed |-> {}, handler |-> "none", lookups |-> 0, reqId |-> <<>>,
    startTime |-> 0, metaTime |-> 0, elapsed |-> 0, responses |-> <<>>, resent |-> 0,
    gets |-> 0, hangs |-> FALSE ]

Init ==
  /\ storage = (<<"other_data">> :> [some |-> "data"])
  /\ origin = <<>>
  /\ stats = InitStats
  /\ now = 0
  /\ config \in Configs
  /\ log = <<>>
  /\ rq = IdleRq

\* the origin records of the keys still stored
Keep(org, st) == [k \in DOMAIN org \cap DOMAIN st |-> org[k]]

SucceedNoData(r, text) ==
  [r EXCEPT !.pc = "idle", !.done = TRUE, !.success = TRUE, !.data = NoData,
            !.error = <<>>]

\* sendResponse({success: true, data})
Succeed(r, text) ==
  [r EXCEPT !.pc = "idle", !.done = TRUE, !.success = TRUE, !.data = Data(text),
            !.error = <<>>]

\* sendResponse({success: false, error}) from the catch branch
Fail(r, msg) ==
  [r EXCEPT !.pc = "idle", !.done = TRUE, !.success = FALSE, !.data = NoData,
            !.error = RenderError(msg)]

\* ----------------------------------------------------------------- actions
Tick ==
  /\ now < MaxClock
  /\ now' = now + 1
  /\ UNCHANGED <<storage, origin, stats, config, log, rq>>

\* the try block of handleMessage up to the handler's first await: the action
\* check, the switch, the text check of handle<Action>Action and the entry of
\* the handler
Route(r0, req) ==
  IF req.action = "" THEN Fail(r0, <<"Action is required">>)
  ELSE IF req.action = "ping" THEN Succeed(r0, <<"pong">>)
  ELSE IF req.action \notin ContentActions
  THEN Fail(r0, <<"Unknown action:", req.action>>)
  ELSE IF MissingText(req.text) THEN Fail(r0, TextRequired[req.action])
  ELSE IF req.action = "translate"
  THEN [r0 EXCEPT !.pc = "lookup", !.handler = req.action, !.text = Truncate(req.text)]
  ELSE [r0 EXCEPT !.pc = "lookup", !.handler = req.action]

\* handleMessage up to the handler's first await: validation and routing
Receive(req) ==
  LET r0 == [IdleRq EXCEPT !.op = "handleMessage", !.action = req.action,
                           !.orig = req.text, !.text = req.text,
                           !.options = req.options]
  IN  /\ rq.pc = "idle"
      /\ stats.hits + stats.misses < MaxLookups
      /\ Cardinality(CacheKeys(storage)) < MaxSaves
      /\ rq' = Route(r0, req)
      /\ UNCHANGED <<storage, origin, stats, now, config, log>>

\* handleMessage for the clearCache action: handleClearCache
ClearCacheMsg(fail) ==
  LET c == clearCache(storage, stats, fail)
      r0 == [IdleRq EXCEPT !.op = "handleMessage", !.action = "clearCache",
                           !.failed = fail # {}, !.fail = fail, !.threw = c.threw,
                           !.removed = DOMAIN storage \ DOMAIN c.storage]
  IN  /\ rq.pc = "idle"
      /\ storage' = c.storage
      /\ stats' = c.stats
      /\ origin' = Keep(origin, c.storage)
      /\ rq' = IF c.threw THEN Fail(r0, <<"Storage error">>)
               ELSE Succeed(r0, <<"Cache cleared successfully">>)
      /\ UNCHANGED <<now, config, log>>

\* an unexpired entry holds the result of an identical earlier request
HasFresh(st, org, r, t) ==
  \E k \in DOMAIN org :
    /\ org[k] = [action |-> r.action, text |-> r.orig, options |-> r.options]
    /\ ~IsExpired(st[k], t)

\* the entry under the key of (text, action) is past its time to live at t
Stale(st, text, action, t) ==
  LET key == CacheKeyOf(inputHashOf(text, action))
  IN  key \in DOMAIN st /\ t - st[key].timestamp > st[key].ttl

\* the response text stored under the key of (text, action)
StoredText(st, text, action) ==
  LET key == CacheKeyOf(inputHashOf(text, action))
  IN  IF key \in DOMAIN st THEN st[key].response.text ELSE <<>>

\* the handler once getCachedResponse has answered: the cached result is
\* returned, or the text is validated and truncated for the provider
AfterLookupMut(r, c) ==
  IF c.threw THEN Fail(r, <<"Storage error">>)
  ELSE IF MissingText(r.text) THEN Fail(r, <<"Input text cannot be empty">>)
  ELSE [r EXCEPT !.pc = "provider", !.text = Truncate(r.text)]

AfterLookup(r, c) ==
  IF c.threw THEN Fail(r, <<"Storage error">>)
  ELSE IF c.value.found THEN Succeed(r, c.value.text)
  ELSE IF MissingText(r.text) THEN Fail(r, <<"Input text cannot be empty">>)
  ELSE [r EXCEPT !.pc = "provider", !.text = Truncate(r.text)]

\* the handler's cache lookup; on a miss, validation and truncation
Lookup(fail) ==
  LET c == getCacheEntry(storage, stats, config, rq.text, rq.action, now, fail)
      key == CacheKeyOf(inputHashOf(rq.text, rq.action))
      r1 == [rq EXCEPT !.hit = c.value.found, !.failed = fail # {}, !.fail = fail,
                       !.threw = c.threw, !.lookups = @ + 1, !.gets = c.gets,
                       !.fresh = HasFresh(storage, origin, rq, now),
                       !.cached = StoredText(storage, rq.text, rq.action),
                       !.expired = Stale(storage, rq.text, rq.action, now),
                       !.hitOrigin = IF c.value.found THEN origin[key] ELSE NoOrigin]
  IN  /\ rq.pc = "lookup"
      /\ storage' = c.storage
      /\ stats' = c.stats
      /\ origin' = Keep(origin, c.storage)
      /\ rq' = AfterLookup(r1, c)
      /\ UNCHANGED <<now, config, log>>

\* the handler once the provider calls are over: what they threw is thrown
\* on, a blank response is rejected by the parser, anything else is cached
AfterProvidersMut(r, p) ==
  IF ~p.ok THEN Fail(r, p.err)
  ELSE [r EXCEPT !.pc = "save"]

AfterProviders(r, p) ==
  IF ~p.ok THEN Fail(r, p.err)
  ELSE IF RejectsBlank(r.action) /\ BlankResponse(p.resp.text)
  THEN Fail(r, <<"Empty response from AI service">>)
  ELSE [r EXCEPT !.pc = "save"]

\* the handler's provider calls and the parse of the response
Provider(ai, env) ==
  LET prompt == [action |-> rq.action, text |-> rq.text, options |-> rq.options]
      p == callProviders(rq.action, ai, prompt, env)
      r1 == [rq EXCEPT !.calls = p.calls, !.thrown = p.thrown, !.resp = p.resp]
  IN  /\ rq.pc = "provider"
      /\ rq' = AfterProviders(r1, p)
      /\ UNCHANGED <<storage, origin, stats, now, config, log>>

\* the handler's saveToCache and its result
Save(fail) ==
  LET s1 == storeEntry(storage, stats, config, rq.action, rq.text, rq.resp, now, fail)
      key == CacheKeyOf(inputHashOf(rq.text, rq.action))
      org == IF s1.cleans
             THEN With(origin, key,
                       [action |-> rq.action, text |-> rq.orig, options |-> rq.options])
             ELSE origin
  IN  /\ rq.pc = "save"
      /\ \E order \in Orders(s1.storage) :
           LET c == saveToCache(storage, stats, config, rq.action, rq.text, rq.resp,
                                now, order, fail)
               r1 == [rq EXCEPT !.sets = c.sets, !.failed = @ \/ fail # {},
                                !.fail = @ \cup fail, !.threw = c.threw]
           IN  /\ storage' = c.storage
               /\ stats' = c.stats
               /\ origin' = Keep(org, c.storage)
               /\ rq' = IF c.threw THEN Fail(r1, <<"Storage error">>)
                        ELSE Succeed(r1, rq.resp.text)
      /\ UNCHANGED <<now, config, log>>

\* ------------------------------------------- the cache called on its own
CacheActions == {"summarize", "translate"}

CacheTexts == {TA, TB}

\* getCachedResponse(inputText, action, options): options is not a parameter
\* of the function and is dropped
GetCachedResponse(text, action, options, fail) ==
  LET c == getCacheEntry(storage, stats, config, text, action, now, fail)
      key == CacheKeyOf(inputHashOf(text, action))
      r0 == [IdleRq EXCEPT !.op = "getCachedResponse", !.action = action,
                           !.orig = text, !.text = text, !.options = options,
                           !.hit = c.value.found, !.resp = c.value, !.gets = c.gets,
                           !.failed = fail # {}, !.fail = fail, !.threw = c.threw,
                           !.fresh = HasFresh(storage, origin,
                                              [action |-> action, orig |-> text,
                                               options |-> options], now),
                           !.cached = StoredText(storage, text, action),
                           !.expired = Stale(storage, text, action, now),
                           !.hitOrigin = IF c.value.found THEN origin[key] ELSE NoOrigin,
                           !.done = TRUE]
  IN  /\ rq.pc = "idle"
      /\ stats.hits + stats.misses < MaxLookups
      /\ storage' = c.storage
      /\ stats' = c.stats
      /\ origin' = Keep(origin, c.storage)
      /\ rq' = r0
      /\ UNCHANGED <<now, config, log>>

\* the call before this one was a saveToCache of the same action, text,
\* options and response
Again(r, action, text, options, response) ==
  /\ r.op = "saveToCache"
  /\ r.action = action /\ r.text = text /\ r.options = options /\ r.resp = response
  /\ r.fail = {}

\* saveToCache(action, inputText, response, options): options is dropped
SaveToCacheCall(action, text, response, options, fail) ==
  LET s1 == storeEntry(storage, stats, config, action, text, response, now, fail)
      key == CacheKeyOf(inputHashOf(text, action))
      org == IF s1.cleans
             THEN With(origin, key, [action |-> action, text |-> text, options |-> options])
             ELSE origin
  IN  /\ rq.pc = "idle"
      /\ \E order \in Orders(s1.storage) :
           LET c == saveToCache(storage, stats, config, action, text, response,
                                now, order, fail)
           IN  /\ storage' = c.storage
               /\ stats' = c.stats
               /\ origin' = Keep(org, c.storage)
               /\ rq' = [IdleRq EXCEPT !.op = "saveToCache", !.action = action,
                                       !.orig = text, !.text = text,
                                       !.options = options, !.resp = response,
                                       !.sets = c.sets, !.failed = fail # {},
                                       !.fail = fail, !.threw = c.threw,
                                       !.again = Again(rq, action, text, options,
                                                       response),
                                       !.done = TRUE]
      /\ UNCHANGED <<now, config>>

\* a saveToCache call whose place in the sequence of saves is recorded
SaveInSequence(action, text, response, options, fail) ==
  /\ Len(log) < MaxSaves
  /\ SaveToCacheCall(action, text, response, options, fail)
  /\ log' = Append(log, [action |-> action, text |-> text, timestamp |-> now,
                         ok |-> fail = {} /\ config.enableCaching])

\* a saveToCache call outside such a sequence
SaveAlone(action, text, response, options, fail) ==
  /\ stats.totalEntries < MaxSaves
  /\ SaveToCacheCall(action, text, response, options, fail)
  /\ UNCHANGED log

\* clearCache()
ClearCacheCall(fail) ==
  LET c == clearCache(storage, stats, fail)
  IN  /\ rq.pc = "idle"
      /\ storage' = c.storage
      /\ stats' = c.stats
      /\ origin' = Keep(origin, c.storage)
      /\ UNCHANGED log
      /\ rq' = [IdleRq EXCEPT !.op = "clearCache", !.failed = fail # {},
                              !.fail = fail, !.threw = c.threw, !.done = TRUE,
                              !.removed = DOMAIN storage \ DOMAIN c.storage]
      /\ UNCHANGED <<now, config>>

\* callChromeAI(request) called on its own
CallChromeAI(ai, prompt, env) ==
  LET p == callChromeAI(ai, prompt, env)
  IN  /\ rq.pc = "idle"
      /\ rq' = [IdleRq EXCEPT !.op = "callChromeAI", !.action = prompt.action,
                              !.orig = prompt.text, !.text = prompt.text,
                              !.options = prompt.options, !.ai = ai,
                              !.calls = p.calls, !.thrown = p.thrown,
                              !.resp = p.resp, !.done = TRUE,
                              !.success = p.ok, !.error = p.err]
      /\ UNCHANGED <<storage, origin, stats, now, config, log>>

\* the chrome.storage calls each cache function makes
LookupFails == { F \in FailSets : F \subseteq {"sync", "get", "remove"} }

SaveFails == { F \in FailSets : F \subseteq {"sync", "set", "getAll", "remove"} }

ClearFails == { F \in FailSets : F \subseteq {"getAll", "remove"} }

Next ==
  \/ Tick
  \/ \E req \in Requests : Receive(req)
  \/ \E fail \in ClearFails : ClearCacheMsg(fail)
  \/ \E fail \in LookupFails \cap LocalFailSets : Lookup(fail)
  \/ \E ai \in HandlerAi, env \in Envs : Provider(ai, env)
  \/ \E fail \in SaveFails \cap LocalFailSets : Save(fail)

Spec == Init /\ [][Next]_vars

NextCache ==
  \/ Tick
  \/ \E text \in CacheTexts, action \in CacheActions, fail \in LookupFails :
        GetCachedResponse(text, action, "o1", fail)
  \/ \E text \in CacheTexts, action \in CacheActions, response \in SavedResponses,
        fail \in SaveFails \cap LocalFailSets :
          SaveAlone(action, text, response, "o1", fail)
  \/ \E fail \in ClearFails : ClearCacheCall(fail)

SpecCache == Init /\ [][NextCache]_vars

NextStore ==
  \/ Tick
  \/ \E text \in CacheTexts, action \in CacheActions, options \in OptionValues,
        response \in SavedResponses, fail \in SaveFails :
          SaveInSequence(action, text, response, options, fail)

SpecStore == Init /\ [][NextStore]_vars

Prompts == [ action : {"rewrite"}, text : {TA}, options : OptionValues ]

NextProv == \E ai \in AiConfigs, prompt \in Prompts, env \in Envs : CallChromeAI(ai, prompt, env)

SpecProv == Init /\ [][NextProv]_vars

\* ------------------------------------------ the cache and its configuration
\* saveConfig({features: {enableCaching: enable}}): the stored configuration
\* with the flag replaced
SaveConfig(enable) ==
  /\ rq.pc = "idle"
  /\ config' = [config EXCEPT !.enableCaching = enable]
  /\ rq' = [IdleRq EXCEPT !.op = "saveConfig", !.done = TRUE]
  /\ UNCHANGED <<storage, origin, stats, now, log>>

NextConfig ==
  \/ Tick
  \/ \E enable \in BOOLEAN : SaveConfig(enable)
  \/ \E text \in CacheTexts, fail \in LookupFails :
        GetCachedResponse(text, "summarize", "o1", fail)
  \/ \E text \in CacheTexts, response \in SavedResponses,
        fail \in SaveFails \cap LocalFailSets :
          SaveAlone("summarize", text, response, "o1", fail)

SpecConfig == Init /\ [][NextConfig]_vars

\* ------------------------------------------------- concurrent cache calls
NumProcs == 2
MaxCalls == 3

\* the calls that can be in progress at once
Procs == 1..NumProcs

IdleCall ==
  [ op |-> "none", pc |-> "idle", action |-> "", text |-> <<>>, timestamp |-> 0,
    keys |-> {} ]

\* the response every concurrent save stores
TheResponse == AIResponse(<<"r1">>, "openai")

\* rq holds the calls in progress, the updateStats() calls started and not
\* yet finished, the number of calls made, and whether a storage call of a
\* cleanup has rejected
InitConc ==
  /\ storage = (<<"other_data">> :> [some |-> "data"])
  /\ origin = <<>>
  /\ stats = InitStats
  /\ now = 0
  /\ config \in Configs
  /\ log = <<>>
  /\ rq = [ calls |-> [p \in Procs |-> IdleCall], updates |-> 0, started |-> 0,
            failed |-> FALSE ]

\* the order in which chrome.storage.local.get(null) enumerates the keys of st
OrderOf(st) == CHOOSE o \in Orders(st) : TRUE

Timestamps(st) == { st[k].timestamp : k \in CacheKeys(st) }

MinOf(S) == CHOOSE x \in S : \A y \in S : x <= y

MaxOf(S) == CHOOSE x \in S : \A y \in S : x >= y

\* updateStats() once its getAllCacheEntries() has answered
updateStats(st, ss) ==
  IF CacheKeys(st) # {}
  THEN [ss EXCEPT !.oldestEntry = MinOf(Timestamps(st)),
                  !.newestEntry = MaxOf(Timestamps(st))]
  ELSE [ss EXCEPT !.oldestEntry = 0, !.newestEntry = 0]

keysToRemoveButOne(st, cf, order, fail) ==
  LET entries == SortByTimestamp(getAllCacheEntries(st, order, fail), TRUE)
      excess == Len(entries) - cf.maxCacheEntries - 1
  IN  { entries[i].id : i \in 1..excess }

\* cleanupOldEntries() up to its remove: the ids of the oldest entries beyond
\* limits.maxCacheEntries among those just read
keysToRemove(st, cf, order, fail) ==
  LET entries == SortByTimestamp(getAllCacheEntries(st, order, fail), TRUE)
      excess == Len(entries) - cf.maxCacheEntries
  IN  { entries[i].id : i \in 1..excess }

CallKey(c) == CacheKeyOf(inputHashOf(c.text, c.action))

\* process p moves to call c; updates, started and failed change by du, dn, f
Move(p, c, du, dn, f) ==
  rq' = [rq EXCEPT !.calls[p] = c, !.updates = @ + du, !.started = @ + dn,
                   !.failed = @ \/ f]

Begin(p) == rq.calls[p].pc = "idle" /\ rq.started < MaxCalls

At(p, op, pc) == rq.calls[p].op = op /\ rq.calls[p].pc = pc

\* saveToCache: getConfig(), the entry with its Date.now(), set issued
SaveBegin(p, text, action) ==
  /\ Begin(p)
  /\ Move(p, [IdleCall EXCEPT !.op = "saveToCache", !.action = action, !.text = text,
                              !.timestamp = now,
                              !.pc = IF config.enableCaching THEN "set" ELSE "idle"],
          0, 1, FALSE)
  /\ UNCHANGED <<storage, origin, stats, now, config, log>>

\* saveToCache: set has answered; totalEntries++, updateStats() started and
\* cleanupOldEntries() entered
SaveSet(p) ==
  LET c == rq.calls[p]
      entry == CacheEntry(CallKey(c), c.text, TheResponse, c.timestamp, config.cacheTtl,
                          c.action, inputHashOf(c.text, c.action))
  IN  /\ At(p, "saveToCache", "set")
      /\ storage' = With(storage, CallKey(c), entry)
      /\ stats' = [stats EXCEPT !.totalEntries = @ + 1]
      /\ Move(p, [c EXCEPT !.pc = "getAll"], 1, 0, FALSE)
      /\ UNCHANGED <<origin, now, config, log>>

\* cleanupOldEntries: getAllCacheEntries() has answered, or answered [] when
\* its read rejected
SaveRead(p, fail) ==
  LET c == rq.calls[p]
      keys == keysToRemove(storage, config, OrderOf(storage),
                           IF fail THEN {"getAll"} ELSE {})
  IN  /\ At(p, "saveToCache", "getAll")
      /\ Move(p, [c EXCEPT !.pc = IF keys = {} THEN "idle" ELSE "remove", !.keys = keys],
              0, 0, fail)
      /\ UNCHANGED <<storage, origin, stats, now, config, log>>

\* cleanupOldEntries: remove has answered, or rejected
SaveRemove(p, fail) ==
  LET c == rq.calls[p]
  IN  /\ At(p, "saveToCache", "remove")
      /\ storage' = IF fail THEN storage ELSE Without(storage, c.keys)
      /\ stats' = IF fail THEN stats
                  ELSE [stats EXCEPT !.totalEntries = config.maxCacheEntries]
      /\ Move(p, [c EXCEPT !.pc = "idle"], IF fail THEN 0 ELSE 1, 0, fail)
      /\ UNCHANGED <<origin, now, config, log>>

\* getCachedResponse: getConfig(), get issued
LookupBegin(p, text, action) ==
  /\ Begin(p)
  /\ Move(p, [IdleCall EXCEPT !.op = "getCachedResponse", !.action = action,
                              !.text = text,
                              !.pc = IF config.enableCaching THEN "get" ELSE "idle"],
          0, 1, FALSE)
  /\ stats' = IF config.enableCaching THEN stats ELSE Miss(stats)
  /\ UNCHANGED <<storage, origin, now, config, log>>

\* getCachedResponse: get has answered; a miss, a hit, or the remove of an
\* expired entry issued
LookupGet(p) ==
  LET c == rq.calls[p]
      found == CallKey(c) \in DOMAIN storage
      expired == found /\ IsExpired(storage[CallKey(c)], now)
  IN  /\ At(p, "getCachedResponse", "get")
      /\ Move(p, [c EXCEPT !.pc = IF expired THEN "remove" ELSE "idle"], 0, 0, FALSE)
      /\ stats' = IF ~found THEN Miss(stats) ELSE IF expired THEN stats ELSE Hit(stats)
      /\ UNCHANGED <<storage, origin, now, config, log>>

\* getCachedResponse: removeCacheEntry has removed the expired entry
LookupRemove(p) ==
  LET c == rq.calls[p]
      r == removeCacheEntry(storage, stats, CallKey(c), {})
  IN  /\ At(p, "getCachedResponse", "remove")
      /\ storage' = r.storage
      /\ stats' = Miss(r.stats)
      /\ Move(p, [c EXCEPT !.pc = "idle"], 1, 0, FALSE)
      /\ UNCHANGED <<origin, now, config, log>>

\* clearCache: get(null) issued
ClearBegin(p) ==
  /\ Begin(p)
  /\ Move(p, [IdleCall EXCEPT !.op = "clearCache", !.pc = "getAll"], 0, 1, FALSE)
  /\ UNCHANGED <<storage, origin, stats, now, config, log>>

\* clearCache: get(null) has answered; with no key to remove the counters are
\* reset at once
ClearRead(p) ==
  LET c == rq.calls[p]
      keys == CacheKeys(storage)
  IN  /\ At(p, "clearCache", "getAll")
      /\ Move(p, [c EXCEPT !.pc = IF keys = {} THEN "idle" ELSE "remove", !.keys = keys],
              IF keys = {} THEN 1 ELSE 0, 0, FALSE)
      /\ stats' = IF keys = {} THEN clearCache(storage, stats, {}).stats ELSE stats
      /\ UNCHANGED <<storage, origin, now, config, log>>

\* clearCache: remove has answered and the counters are reset
ClearRemove(p) ==
  LET c == rq.calls[p]
  IN  /\ At(p, "clearCache", "remove")
      /\ storage' = Without(storage, c.keys)
      /\ stats' = clearCache(storage, stats, {}).stats
      /\ Move(p, [c EXCEPT !.pc = "idle"], 1, 0, FALSE)
      /\ UNCHANGED <<origin, now, config, log>>

\* one of the updateStats() calls nobody awaits gets its entries and assigns
UpdateStats ==
  /\ rq.updates > 0
  /\ stats' = updateStats(storage, stats)
  /\ rq' = [rq EXCEPT !.updates = @ - 1]
  /\ UNCHANGED <<storage, origin, now, config, log>>

NextConc ==
  \/ Tick
  \/ UpdateStats
  \/ \E p \in Procs, action \in CacheActions : SaveBegin(p, TA, action)
  \/ \E p \in Procs : SaveSet(p)
  \/ \E p \in Procs, fail \in BOOLEAN : SaveRead(p, fail)
  \/ \E p \in Procs, fail \in BOOLEAN : SaveRemove(p, fail)
  \/ \E p \in Procs, action \in CacheActions : LookupBegin(p, TA, action)
  \/ \E p \in Procs : LookupGet(p)
  \/ \E p \in Procs : LookupRemove(p)
  \/ \E p \in Procs : ClearBegin(p)
  \/ \E p \in Procs : ClearRead(p)
  \/ \E p \in Procs : ClearRemove(p)

SpecConc == InitConc /\ [][NextConc]_vars

\* ------------------------------------------- a provider that never answers
\* callChromeAI(request) up to the await of the provider it calls; hang says
\* that the fetch of callOpenAI / callGemini never settles. callChromeAIAPI
\* resolves from its own timer and the throw of "No AI provider available"
\* needs no provider
CallBegin(ai, prompt, hang) ==
  LET p == callChromeAI(ai, prompt, [direct |-> "ok", openai |-> "ok",
                                     gemini |-> "ok", text |-> <<>>])
  IN  /\ rq.pc = "idle"
      /\ rq' = [IdleRq EXCEPT !.op = "callChromeAI", !.pc = "calling",
                              !.action = prompt.action, !.orig = prompt.text,
                              !.text = prompt.text, !.options = prompt.options,
                              !.ai = ai, !.calls = p.calls,
                              !.hangs = hang /\ p.calls \in {<<"openai">>, <<"gemini">>}]
      /\ UNCHANGED <<storage, origin, stats, now, config, log>>

\* the awaited provider call settles and callChromeAI returns or throws
CallReturn(env) ==
  LET prompt == [action |-> rq.action, text |-> rq.text, options |-> rq.options]
      p == callChromeAI(rq.ai, prompt, env)
  IN  /\ rq.pc = "calling"
      /\ ~rq.hangs
      /\ rq' = [rq EXCEPT !.pc = "idle", !.calls = p.calls, !.thrown = p.thrown,
                          !.resp = p.resp, !.done = TRUE, !.success = p.ok,
                          !.error = p.err]
      /\ UNCHANGED <<storage, origin, stats, now, config, log>>

NextHang ==
  \/ \E ai \in AiConfigs, prompt \in Prompts, hang \in BOOLEAN : CallBegin(ai, prompt, hang)
  \/ \E env \in Envs : CallReturn(env)

\* the event loop runs every continuation that is ready
SpecHang == Init /\ [][NextHang]_vars /\ WF_vars(NextHang)

\* ------------------------------------------------------ the catch branch
MaxPhrases == 3

\* the parts an error message is made of
Phrases ==
  { "INSUFFICIENT_CONTEXT", "Chrome AI API not available", "No AI provider available",
    "Unknown action:", "Network error" }

\* the messages of the errors that reach the catch branch
Messages == UNION { [1..n -> Phrases] : n \in 0..MaxPhrases }

\* handleMessage when the code in its try block throws an Error with message msg
CatchError(msg) ==
  /\ rq.pc = "idle"
  /\ rq' = Fail([IdleRq EXCEPT !.op = "handleMessage", !.thrown = msg], msg)
  /\ UNCHANGED <<storage, origin, stats, now, config, log>>

NextCatch == \E msg \in Messages : CatchError(msg)

SpecCatch == Init /\ [][NextCatch]_vars

\* ------------------------------------------------- the response envelope
MaxDelay == 1

\* request.requestId: absent, the empty string, or an id
RequestIds == { <<>>, <<"">>, <<"r1">> }

\* generateRequestId() at clock value t: `req_${Date.now()}_${random}`
generateRequestId(t) == <<"req_", t>>

requestIdFresh(reqId, t) == generateRequestId(t)

\* request.requestId || generateRequestId()
requestIdOf(reqId, t) ==
  IF reqId = <<>> \/ reqId = <<"">> THEN generateRequestId(t) ELSE reqId

MessageResponse(success, data, error, requestId, processingTime) ==
  [ success |-> success, data |-> data, error |-> error, requestId |-> requestId,
    processingTime |-> processingTime ]

\* what a call of sendResponse does, call after call
SendOutcomes == { <<"ok">>, <<"throw", "ok">>, <<"throw", "throw">> }

SendError == <<"Attempting to use a disconnected port object">>

\* the responses handleMessage hands to sendResponse at clock value t: the
\* success response is sent inside the try, so a throw of sendResponse lands
\* in the catch, which sends an error response of its own
responsesOf(r, snd, t) ==
  LET requestId == requestIdOf(r.reqId, r.startTime)
      first == MessageResponse(r.success, r.data, r.error, requestId,
                               IF r.success THEN r.metaTime ELSE t - r.startTime)
      second == MessageResponse(FALSE, NoData, RenderError(SendError), requestId,
                                t - r.startTime)
  IN  IF r.success /\ snd[1] = "throw" THEN <<first, second>> ELSE <<first>>

\* handleMessage rejects: the sendResponse of its catch branch threw
rejects(r, snd) ==
  IF r.success THEN snd[1] = "throw" /\ snd[2] = "throw" ELSE snd[1] = "throw"

\* the requests sent over chrome.runtime
RouterRequests ==
  [ action : {"summarize", "translate"}, text : {TA, TS, TW}, options : {"o1"},
    requestId : RequestIds ]
  \cup [ action : {"ping", "bogus", "INSUFFICIENT_CONTEXT", ""}, text : {<<>>},
         options : {"o1"}, requestId : RequestIds ]

RouterFails == { F \in LocalFailSets : F \subseteq {"get"} }

RouterEnvs == { e \in Envs : e.gemini = "ok" }

\* the response of the request before has been sent
Answered == rq.op = "none" \/ rq.responses # <<>>

\* handleMessage from its entry to the handler's first await; pre is the time
\* between the Date.now() of startTime and that of metadata.processingTime
Enter(req, pre) ==
  LET r0 == [IdleRq EXCEPT !.op = "handleMessage", !.action = req.action,
                           !.orig = req.text, !.text = req.text,
                           !.options = req.options, !.reqId = req.requestId,
                           !.startTime = now, !.metaTime = pre]
  IN  /\ rq.pc = "idle"
      /\ Answered
      /\ now + pre <= MaxClock
      /\ stats.hits + stats.misses < MaxLookups
      /\ Cardinality(CacheKeys(storage)) < MaxSaves
      /\ rq' = Route(r0, req)
      /\ now' = now + pre
      /\ UNCHANGED <<storage, origin, stats, config, log>>

\* handleMessage for the clearCache action, up to its response
EnterClear(reqId, pre, fail) ==
  LET c == clearCache(storage, stats, fail)
      r0 == [IdleRq EXCEPT !.op = "handleMessage", !.action = "clearCache",
                           !.handler = "clearCache",
                           !.failed = fail # {}, !.fail = fail, !.threw = c.threw,
                           !.removed = DOMAIN storage \ DOMAIN c.storage,
                           !.reqId = reqId, !.startTime = now, !.metaTime = pre]
  IN  /\ rq.pc = "idle"
      /\ Answered
      /\ now + pre <= MaxClock
      /\ storage' = c.storage
      /\ stats' = c.stats
      /\ origin' = Keep(origin, c.storage)
      /\ rq' = IF c.threw THEN Fail(r0, <<"Storage error">>)
               ELSE Succeed(r0, <<"Cache cleared successfully">>)
      /\ now' = now + pre
      /\ UNCHANGED <<config, log>>

\* the handler has returned or thrown and handleMessage has yet to respond
Responding == rq.op = "handleMessage" /\ rq.done /\ rq.responses = <<>>

\* the clock, which does not advance between the handler's return and the
\* response built in the same turn
RouterTick == ~Responding /\ Tick

\* handleMessage from the handler's return or throw on: the response, the
\* sendResponse call and what follows when it throws; the onMessage listener
\* calls sendResponse once more when handleMessage rejects
Send(snd) ==
  /\ Responding
  /\ rq' = [rq EXCEPT !.responses = responsesOf(rq, snd, now),
                      !.resent = IF rejects(rq, snd) THEN 1 ELSE 0,
                      !.elapsed = now - rq.startTime]
  /\ UNCHANGED <<storage, origin, stats, now, config, log>>

NextRouter ==
  \/ RouterTick
  \/ \E req \in RouterRequests, pre \in 0..MaxDelay : Enter(req, pre)
  \/ \E reqId \in RequestIds, pre \in 0..MaxDelay : EnterClear(reqId, pre, {})
  \/ \E fail \in RouterFails : Lookup(fail)
  \/ \E ai \in HandlerAi, env \in RouterEnvs : Provider(ai, env)
  \/ \E fail \in RouterFails : Save(fail)
  \/ \E snd \in SendOutcomes : Send(snd)

SpecRouter == Init /\ [][NextRouter]_vars

\* ------------------------------------------------------------------ claims
Handled == rq.op = "handleMessage" /\ rq.done

ContentHandled == Handled /\ rq.action \in ContentActions

\* every provider the request attempted threw
AllThrew == rq.calls # <<>> /\ Len(rq.thrown) = Len(rq.calls)

\* a provider that callChromeAI tries after the named one is configured
LaterConfigured(ai, name) ==
  \/ name = "chrome" /\ (ai.openaiKey \/ ai.geminiKey)
  \/ name = "openai" /\ ai.geminiKey

\* C1: with enableFallback on, when the first provider callChromeAI attempts
\* throws and a later provider is configured, the next provider is called and
\* its result is what callChromeAI returns.
C1_FallbackOnThrow ==
  ( /\ rq.op = "callChromeAI"
    /\ rq.ai.enableFallback
    /\ rq.thrown # <<>>
    /\ rq.thrown[1] = rq.calls[1]
    /\ LaterConfigured(rq.ai, rq.calls[1]) )
  => /\ Len(rq.calls) >= 2
     /\ rq.success => rq.resp.provider = rq.calls[Len(rq.calls)]

\* C2: when every provider a request attempts throws, the response of
\* handleMessage has success = false and an error that begins
\* "AI service unavailable:", so the provider's own error text is not in it.
C2_ProviderErrorHidden ==
  (ContentHandled /\ AllThrew)
  => /\ ~rq.success
     /\ rq.error # <<>>
     /\ rq.error[1] = "AI service unavailable:"

\* the response the provider returned was rejected as empty by the parser
RejectedEmpty ==
  /\ rq.resp.found
  /\ BlankResponse(rq.resp.text)
  /\ rq.action \in {"summarize", "rewrite", "translate"}

\* C3: for every content action, a request whose providers all fail, or whose
\* response is rejected as empty, fails and hands no cache entry to storage.
C3_FailureWritesNothing ==
  (ContentHandled /\ (AllThrew \/ RejectedEmpty))
  => /\ ~rq.success
     /\ rq.sets = {}

C3_Witness ==
  /\ ContentHandled
  /\ AllThrew
  /\ rq.action = "summarize"
  /\ Len(rq.calls) = 2
  /\ config.enableCaching
  /\ rq.sets = {}

\* C4: on a cache hit the handler answers with the cached response text, calls
\* no provider and hands no cache entry to storage.
C4_HitServedFromCache ==
  (ContentHandled /\ rq.hit)
  => /\ rq.success
     /\ rq.data = Data(rq.cached)
     /\ rq.calls = <<>>
     /\ rq.sets = {}

C4_Witness ==
  /\ ContentHandled
  /\ rq.hit
  /\ rq.success
  /\ rq.data = Data(<<"r1">>)
  /\ rq.calls = <<>>

\* C5: with caching on, a request identical to an earlier one whose result is
\* still stored and unexpired is answered from the cache without a provider
\* call, whatever the length of its text (the storage reads succeeding).
C5_RepeatServedFromCache ==
  (ContentHandled /\ rq.fresh /\ config.enableCaching /\ ~rq.failed)
  => /\ rq.hit
     /\ rq.calls = <<>>

\* C8: a storage failure inside getCachedResponse, saveToCache or clearCache
\* never rejects; a lookup whose read fails answers null; and a content action
\* whose provider returned a usable response succeeds whatever storage does.
C8_StorageFailuresCaught ==
  (rq.op = "handleMessage" /\ rq.failed)
  => /\ ~rq.threw
     /\ "get" \in rq.fail => ~rq.hit
     /\ (ContentHandled /\ rq.resp.found /\ ~RejectedEmpty) => rq.success

C8_Witness ==
  /\ ContentHandled
  /\ "get" \in rq.fail
  /\ "set" \in rq.fail
  /\ rq.calls # <<>>
  /\ rq.success

\* C9: two requests with the same action and text but different options use
\* different cache keys, so a hit never returns a response cached for other
\* options.
C9_HitHasSameOptions ==
  (ContentHandled /\ rq.hit) => rq.hitOrigin.options = rq.options

\* the request's cache key
KeyOfRq == CacheKeyOf(inputHashOf(rq.text, rq.action))

\* an entry with this id is listed by getAllCacheEntries(), however storage
\* enumerates its keys
Listed(id) ==
  \E order \in Orders(storage) :
    LET entries == getAllCacheEntries(storage, order, {})
    IN  \E i \in 1..Len(entries) : entries[i].id = id

\* the lookup read storage: caching was on and the read succeeded
LookupRead == getConfig(config, rq.fail).enableCaching /\ "get" \notin rq.fail

DistinctInputs ==
  \A i, j \in 1..Len(log) :
    (log[i].action = log[j].action /\ log[i].text = log[j].text) => i = j

\* the entry stored by the i-th save of the sequence is in storage
Remains(i) ==
  \E k \in CacheKeys(storage) :
    /\ storage[k].action = log[i].action
    /\ storage[k].inputText = log[i].text
    /\ storage[k].timestamp = log[i].timestamp

\* C7: from an empty cache with maxCacheEntries = N, after N + 1 saveToCache
\* calls in sequence for distinct inputs, at any non-decreasing clock values,
\* exactly N entries remain and they are those of the last N saves.
C7_EvictsOldest ==
  ( /\ Len(log) = config.maxCacheEntries + 1
    /\ \A i \in 1..Len(log) : log[i].ok
    /\ DistinctInputs )
  => /\ Cardinality(CacheKeys(storage)) = config.maxCacheEntries
     /\ \A i \in 2..Len(log) : Remains(i)

\* C10: saving the same action, text, options and response twice (caching on,
\* the storage calls succeeding) leaves exactly one entry for the key, and a
\* lookup with the same inputs returns the response.
C10_SaveTwice ==
  (rq.op = "saveToCache" /\ rq.again /\ rq.fail = {} /\ config.enableCaching)
  => /\ KeyOfRq \in DOMAIN storage
     /\ Cardinality({ k \in CacheKeys(storage) :
                        storage[k].inputHash = inputHashOf(rq.text, rq.action) }) = 1
     /\ getCacheEntry(storage, stats, config, rq.text, rq.action,
                      storage[KeyOfRq].timestamp, {}).value = rq.resp

\* the last cache operation was a clearCache() call, which has returned
Cleared == rq.op = "clearCache" /\ rq.done

\* no cache_ key is stored and the counters getStats() reports are zero
NothingCached ==
  /\ CacheKeys(storage) = {}
  /\ stats.hits = 0
  /\ stats.misses = 0
  /\ stats.totalEntries = 0
  /\ stats.hitRate = <<0, 1>>

\* C11: after every clearCache() call returns, storage holds no cache_ key and
\* getStats() reports hits = 0, misses = 0, totalEntries = 0 and hitRate = 0.
C11_ClearLeavesNothing == Cleared => NothingCached

\* C11, amended: after a clearCache() call whose chrome.storage.local calls
\* succeeded, storage holds no cache_ key and the counters are zero.
C11_ClearSucceeded == (Cleared /\ rq.fail = {}) => NothingCached

C11_Witness ==
  /\ Cleared
  /\ rq.fail = {}
  /\ rq.removed # {}
  /\ NothingCached

hitsPlusMisses(ss) == ss.hits + ss.misses

\* C12: clearCache removes only keys that start with cache_; every other key
\* of chrome.storage.local keeps its value across the call.
C12_ClearKeepsOtherKeys ==
  [][ rq'.op = "clearCache"
      => \A k \in DOMAIN storage :
           ~IsCacheKey(k) => (k \in DOMAIN storage' /\ storage'[k] = storage[k]) ]_vars

C12_Witness ==
  /\ Cleared
  /\ rq.removed # {}
  /\ \A k \in rq.removed : IsCacheKey(k)
  /\ <<"other_data">> \in DOMAIN storage

\* C20: across every sequence of cache operations (lookup, store, clear,
\* cleanup) hits + misses never decreases from one state to the next.
C20_NeverDecreases ==
  [][ hitsPlusMisses(stats') >= hitsPlusMisses(stats) ]_vars

\* C20, amended: hits + misses never decreases across a lookup, a store or a
\* cleanup; the one step that lowers it is a clearCache, which resets it to 0.
C20_DecreasesOnlyOnClear ==
  [][ hitsPlusMisses(stats') < hitsPlusMisses(stats)
      => (rq'.op = "clearCache" /\ hitsPlusMisses(stats') = 0) ]_vars

C20_Witness ==
  /\ rq.op = "getCachedResponse"
  /\ stats.hits = 1
  /\ stats.misses = 1

\* ------------------------------------------------------------ the router
\* the actions of the switch of handleMessage
KnownActions ==
  ContentActions \cup {"ping", "verifyKey", "getSettings", "updateSettings", "clearCache"}

\* handleMessage has responded to the request held in rq
Responded == rq.op = "handleMessage" /\ rq.responses # <<>>

\* the request came with an id of its own
Supplied(reqId) == reqId # <<>> /\ reqId # <<"">>

\* no handler ran, and neither the cache nor a provider was touched
NothingRan ==
  /\ rq.handler = "none"
  /\ rq.lookups = 0
  /\ rq.calls = <<>>
  /\ rq.sets = {}
  /\ rq.removed = {}

\* C13: a request whose action is none of the known ones is answered with
\* success = false and the error "Unknown action: <action>", its own id echoed,
\* and no handler, cache operation or provider call is made for it
C13_UnknownActionRejected ==
  (Responded /\ rq.action # "" /\ rq.action \notin KnownActions) =>
    /\ Len(rq.responses) = 1
    /\ rq.responses[1].success = FALSE
    /\ rq.responses[1].error = <<"Unknown action:", rq.action>>
    /\ (Supplied(rq.reqId) => rq.responses[1].requestId = rq.reqId)
    /\ NothingRan

\* C14 as stated: every response of handleMessage carries the requestId the
\* request supplied, and a generated id only when the request has none
C14_IdEchoed ==
  Responded =>
    \A i \in 1..Len(rq.responses) :
      rq.responses[i].requestId =
        IF rq.reqId = <<>> THEN generateRequestId(rq.startTime) ELSE rq.reqId

\* C14: every response of handleMessage carries the request's requestId when
\* that is a non-empty string, and the id generated at entry when the request
\* has no requestId or an empty one
C14_NonEmptyIdEchoed ==
  Responded =>
    \A i \in 1..Len(rq.responses) :
      rq.responses[i].requestId =
        IF Supplied(rq.reqId) THEN rq.reqId ELSE generateRequestId(rq.startTime)

C14_Witness ==
  /\ Responded
  /\ rq.reqId = <<"r1">>
  /\ Len(rq.responses) = 2
  /\ rq.responses[1].success
  /\ ~rq.responses[2].success
  /\ rq.responses[2].requestId = <<"r1">>

\* the calls of sendResponse made for the request held in rq
sendResponseCalls == Len(rq.responses) + rq.resent

\* C15: for every invocation of handleMessage sendResponse is called exactly
\* once, on the success path, on a validation or handler error and when the
\* sending itself fails
C15_OneResponse == Responded => sendResponseCalls = 1

\* C16: in every response of handleMessage success = true comes with data and
\* without error, and success = false with a non-empty error and without data
C16_DataOrError ==
  Responded =>
    \A i \in 1..Len(rq.responses) :
      LET m == rq.responses[i]
      IN  /\ m.success => (m.data.present /\ m.error = <<>>)
          /\ ~m.success => (m.error # <<>> /\ m.error # <<"">> /\ ~m.data.present)

C16_Witness ==
  /\ Responded
  /\ rq.handler = "summarize"
  /\ Len(rq.calls) > 0
  /\ Len(rq.responses) = 2
  /\ rq.responses[1].success
  /\ rq.responses[1].data.present
  /\ ~rq.responses[2].success

\* C17: on a successful request metadata.processingTime is the time from the
\* entry to handleMessage until the action handler has finished, so it is
\* never smaller than the time the handler took
C17_ProcessingTimeCoversHandler ==
  (Responded /\ rq.responses[1].success) =>
    /\ rq.responses[1].processingTime = rq.elapsed
    /\ rq.responses[1].processingTime >= rq.elapsed - rq.metaTime

\* C18: a content request whose text is present but has fewer than 10
\* characters after trimming is rejected with an INSUFFICIENT_CONTEXT error
\* and no provider call is made for it
C18_ShortTextRejected ==
  ( /\ Responded
    /\ rq.action \in ContentActions
    /\ ~MissingText(rq.orig)
    /\ InsufficientContext(rq.orig) ) =>
    /\ ~rq.responses[1].success
    /\ rq.responses[1].error = RenderError(<<"INSUFFICIENT_CONTEXT:">>)
    /\ rq.calls = <<>>

\* the error thrown inside handleMessage has been turned into a response
Caught == rq.op = "handleMessage" /\ rq.done /\ ~rq.success /\ rq.handler = "none"

\* C19: on failure the error text is rewritten in this precedence: a message
\* containing INSUFFICIENT_CONTEXT becomes the INSUFFICIENT_CONTEXT text;
\* otherwise one containing "Chrome AI API not available" becomes "AI service
\* unavailable: Chrome AI API not accessible"; otherwise one containing "No AI
\* provider available" becomes "AI service unavailable: No AI providers
\* configured"; any other message is returned unchanged
C19_RewritePrecedence ==
  Caught =>
    LET insufficient == Includes(rq.thrown, "INSUFFICIENT_CONTEXT")
        noChrome == Includes(rq.thrown, "Chrome AI API not available")
        noProvider == Includes(rq.thrown, "No AI provider available")
    IN  /\ insufficient =>
              rq.error = <<"INSUFFICIENT_CONTEXT:",
                           "Please provide at least 10 characters of text">>
        /\ (~insufficient /\ noChrome) =>
              rq.error = <<"AI service unavailable:", "Chrome AI API not accessible">>
        /\ (~insufficient /\ ~noChrome /\ noProvider) =>
              rq.error = <<"AI service unavailable:", "No AI providers configured">>
        /\ (~insufficient /\ ~noChrome /\ ~noProvider) => rq.error = rq.thrown

C19_Witness ==
  /\ Caught
  /\ Includes(rq.thrown, "INSUFFICIENT_CONTEXT")
  /\ Includes(rq.thrown, "Chrome AI API not available")
  /\ Includes(rq.thrown, "No AI provider available")
  /\ rq.error[1] = "INSUFFICIENT_CONTEXT:"

\* -------------------------------------------------------- the counters
\* the rational <<n, d>> equals a / b
RateIs(rate, a, b) == rate[2] > 0 /\ rate[1] * b = a * rate[2]

\* C21: in every reachable state hitRate is hits / (hits + misses) when
\* hits + misses > 0 and 0 otherwise, and hits, misses and totalEntries are
\* never negative
C21_HitRateConsistent ==
  /\ stats.hits + stats.misses > 0 =>
        RateIs(stats.hitRate, stats.hits, stats.hits + stats.misses)
  /\ stats.hits + stats.misses = 0 => RateIs(stats.hitRate, 0, 1)
  /\ stats.hits >= 0
  /\ stats.misses >= 0
  /\ stats.totalEntries >= 0

C21_Witness ==
  /\ rq.op = "getCachedResponse"
  /\ rq.hit
  /\ stats.hits = 1
  /\ stats.misses = 1
  /\ stats.hitRate = <<1, 2>>

\* C22: with features.enableCaching = false, getCachedResponse returns null
\* without reading chrome.storage.local and saveToCache writes nothing, so
\* both calls leave storage as it was
C22_DisabledCacheIdle ==
  [][ ( /\ rq'.op \in {"getCachedResponse", "saveToCache"}
        /\ ~getConfig(config, rq'.fail).enableCaching ) =>
        /\ storage' = storage
        /\ rq'.gets = 0
        /\ rq'.sets = {}
        /\ (rq'.op = "getCachedResponse" => (~rq'.hit /\ rq'.resp = Null)) ]_vars

\* a lookup of a stored, unexpired entry while caching is switched off
C22_Witness ==
  /\ rq.op = "getCachedResponse"
  /\ ~config.enableCaching
  /\ "sync" \notin rq.fail
  /\ CacheKeyOf(inputHashOf(rq.text, rq.action)) \in DOMAIN storage
  /\ ~rq.expired
  /\ rq.gets = 0
  /\ ~rq.hit

\* ------------------------------------------------------- the provider chain
\* the configured primary provider can be called: chrome.ai exists, or the
\* provider's API key is set
PrimaryUsable(ai) ==
  \/ ai.provider = "chrome" /\ ai.chromeAi
  \/ ai.provider = "openai" /\ ai.openaiKey
  \/ ai.provider = "gemini" /\ ai.geminiKey

\* C23: with features.enableFallback = false callChromeAI attempts exactly one
\* provider, the configured primary config.ai.provider, and a failure of that
\* attempt is final: no other provider is called
C23_PrimaryOnlyWithoutFallback ==
  (rq.op = "callChromeAI" /\ ~rq.ai.enableFallback /\ PrimaryUsable(rq.ai)) =>
    rq.calls = <<rq.ai.provider>>

\* C24: every provider invocation of callChromeAI is bounded by a timeout, a
\* call that never completes being treated like a thrown error, so under fair
\* scheduling every request is eventually answered even when a provider hangs
C24_EventuallyAnswered == (rq.pc = "calling") ~> rq.done

\* ------------------------------------------------------------ truncation
\* the handler of the request held in rq went past a cache miss
PastMiss(r) ==
  /\ r.op = "handleMessage"
  /\ r.handler \in ContentActions
  /\ r.lookups > 0
  /\ ~r.hit

\* t is the first MaxTextLength characters of o followed by "..."
TruncatedFrom(t, o) ==
  /\ TextLen(t) = MaxTextLength + 3
  /\ Substring0(t, MaxTextLength) = Substring0(o, MaxTextLength)
  /\ t[Len(t)] = <<46, 3>>

C29_OneCounterPerLookup ==
  [][ (rq'.op = "getCachedResponse" /\ now' = now) =>
        /\ rq'.hit => (stats'.hits = stats.hits + 1 /\ stats'.misses = stats.misses)
        /\ ~rq'.hit => (stats'.misses = stats.misses + 1 /\ stats'.hits = stats.hits)
        /\ rq'.hit <=>
             /\ getConfig(config, rq'.fail).enableCaching
             /\ "get" \notin rq'.fail
             /\ CacheKeyOf(inputHashOf(rq'.text, rq'.action)) \in DOMAIN storage
             /\ ~rq'.expired
        /\ (CacheKeys(storage) = {} /\ stats = InitStats) =>
             (stats'.hits = 0 /\ stats'.misses = 1 /\ RateIs(stats'.hitRate, 0, 1)) ]_vars

\* a lookup that found its entry expired
C29_Witness ==
  /\ rq.op = "getCachedResponse"
  /\ rq.expired
  /\ ~rq.hit
  /\ stats.misses = 2
  /\ stats.hits = 0

\* C30: a cache hit for (action, text) returns only a response that a
\* saveToCache call stored for that same action and that same text
C30_HitForSameInput ==
  (rq.op = "getCachedResponse" /\ rq.hit) =>
    (rq.hitOrigin.action = rq.action /\ rq.hitOrigin.text = rq.text)

\* ------------------------------------------------- concurrent cache calls
NoSaveInProgress ==
  \A p \in Procs : rq.calls[p].op = "saveToCache" => rq.calls[p].pc = "idle"

AllReturned == \A p \in Procs : rq.calls[p].pc = "idle"

CleanupRemoves(p) == At(p, "saveToCache", "remove") /\ rq'.calls[p].pc = "idle"

\* the step is the read of the cleanupOldEntries of process p
CleanupReads(p) == At(p, "saveToCache", "getAll") /\ rq'.calls[p].pc # "getAll"

\* C27: under every interleaving with concurrent lookups and stores
\* cleanupOldEntries never removes more entries than needed to bring the
\* count down to maxCacheEntries, never removes an entry that is newer, by its
\* timestamp at the moment of removal, than an entry it keeps, and removes
\* nothing when run while the count is within the maximum
C27_CleanupRemovesOnlyOldestExcess ==
  [][ \A p \in Procs :
        /\ CleanupRemoves(p) =>
             /\ \/ storage' = storage
                \/ Cardinality(CacheKeys(storage')) >= config.maxCacheEntries
             /\ \A k \in CacheKeys(storage) \ CacheKeys(storage'),
                   k2 \in CacheKeys(storage') :
                     storage[k].timestamp <= storage[k2].timestamp
        /\ ( /\ CleanupReads(p)
             /\ Cardinality(CacheKeys(storage)) <= config.maxCacheEntries ) =>
             (rq'.calls[p].pc = "idle" /\ rq'.calls[p].keys = {}) ]_vars

\* C28: once every saveToCache, getCachedResponse and clearCache call has
\* returned, getStats() agrees with storage: totalEntries is the number of
\* stored cache_ entries (a key stored twice counts once), and oldestEntry /
\* newestEntry are the smallest / largest stored timestamp, or 0 when nothing
\* is stored.  Stated for the quiescent states only: no storage call was
\* rejected and every updateStats() that was started without being awaited
\* has finished as well.
C28_StatsMatchStorage ==
  (AllReturned /\ rq.updates = 0 /\ ~rq.failed) =>
    /\ stats.totalEntries = Cardinality(CacheKeys(storage))
    /\ stats.oldestEntry =
         IF CacheKeys(storage) = {} THEN 0 ELSE MinOf(Timestamps(storage))
    /\ stats.newestEntry =
         IF CacheKeys(storage) = {} THEN 0 ELSE MaxOf(Timestamps(storage))

====
